---------------------------- MODULE Spec2Model ----------------------------
(* A model of unarch (src/main.go, the program of lines 197-437): main,     *)
(* detectArchiveType, unzip, untar, extractSingleFile and extractWith7z.    *)
(*                                                                          *)
(* Representation.  A byte is a number 0..255 and a file's content a        *)
(* sequence of bytes.  A file name is the sequence of its dot-separated     *)
(* segments ("x.tar.lz" is <<"x","tar","lz">>, ".." is <<"","","">>, the    *)
(* empty name is <<"">>); a path is the sequence of its slash-separated     *)
(* names, and the empty path is the working directory ".".                  *)
EXTENDS Naturals, Sequences, FiniteSets

\* ------------------------------------------------------------------------
\* Bounds of the model
\* ------------------------------------------------------------------------
\* entries of an archive
MaxEntries == 2
\* bytes that follow a signature, or a prefix of one, in a source file
MaxTail == 1
\* runs of the program on the same archive and destination
MaxRuns == 2

\* ------------------------------------------------------------------------
\* Sequences
\* ------------------------------------------------------------------------
Take(s, n) == SubSeq(s, 1, IF n < Len(s) THEN n ELSE Len(s))

Front(s) == SubSeq(s, 1, Len(s) - 1)

Last(s) == s[Len(s)]

SeqsUpTo(S, n) == UNION {[1..k -> S] : k \in 0..n}

\* bytes.HasPrefix
HasPrefix(s, prefix) ==
    /\ Len(prefix) <= Len(s)
    /\ SubSeq(s, 1, Len(prefix)) = prefix

\* ------------------------------------------------------------------------
\* detectArchiveType
\* ------------------------------------------------------------------------
SigZip == <<80, 75>>
SigGzip == <<31, 139>>
SigBzip2 == <<66, 90, 104>>
SigXz == <<253, 55, 122, 88, 90, 0>>
SigRar == <<82, 97, 114, 33>>
Sig7z == <<55, 122, 188, 175, 39, 28>>
SigZstd == <<40, 181, 47, 253>>

\* buf := make([]byte, n); f.Read(buf): the buffer keeps its length, with the
\* file's first bytes in front and zeros where the file ended.
ReadBuf(bytes, n) ==
    [i \in 1..n |-> IF i <= Len(bytes) THEN bytes[i] ELSE 0]

DetectBufLen == 16

\* filepath.Ext: the suffix of the name from its last dot on, "" without a
\* dot.  The suffix is written as a name: ".gz" is <<"", "gz">>.
Ext(name) ==
    IF Len(name) >= 2 THEN <<"", Last(name)>> ELSE <<"">>

NoTag == ""

\* The cases of switch ext, NoTag in its default branch
ExtTag(ext) ==
    CASE ext = <<"", "gz">> -> "gz"
      [] ext = <<"", "bz2">> -> "bz2"
      [] ext = <<"", "xz">> -> "xz"
      [] ext = <<"", "lz">> -> "lz"
      [] ext = <<"", "lzma">> -> "lzma"
      [] ext = <<"", "zst">> -> "zst"
      [] ext = <<"", "tar">> -> "tar"
      [] ext = <<"", "tar", "lz">> -> "tar.lz"
      [] ext = <<"", "tar", "lzma">> -> "tar.lzma"
      [] OTHER -> NoTag

\* A mutant of SigTag: the tags of the rar and 7z signatures are swapped.
SigTagSwapped(buf) ==
    IF HasPrefix(buf, SigZip) THEN "zip"
    ELSE IF HasPrefix(buf, SigGzip) THEN "tar.gz"
    ELSE IF HasPrefix(buf, SigBzip2) THEN "tar.bz2"
    ELSE IF HasPrefix(buf, SigXz) THEN "tar.xz"
    ELSE IF HasPrefix(buf, SigRar) THEN "7z"
    ELSE IF HasPrefix(buf, Sig7z) THEN "rar"
    ELSE IF HasPrefix(buf, SigZstd) THEN "tar.zst"
    ELSE NoTag

\* The signature cases of detectArchiveType's switch on the buffer read, in
\* their order; NoTag in its default branch.
SigTag(buf) ==
    IF HasPrefix(buf, SigZip) THEN "zip"
    ELSE IF HasPrefix(buf, SigGzip) THEN "tar.gz"
    ELSE IF HasPrefix(buf, SigBzip2) THEN "tar.bz2"
    ELSE IF HasPrefix(buf, SigXz) THEN "tar.xz"
    ELSE IF HasPrefix(buf, SigRar) THEN "rar"
    ELSE IF HasPrefix(buf, Sig7z) THEN "7z"
    ELSE IF HasPrefix(buf, SigZstd) THEN "tar.zst"
    ELSE NoTag

\* The result of detectArchiveType on a source: kind "missing" (os.Open
\* fails), "dir" (the read fails) or "file" with its bytes and its name.
detectArchiveType(src) ==
    IF src.kind = "missing" THEN [tag |-> NoTag, err |-> "open"]
    ELSE IF src.kind = "dir" THEN [tag |-> NoTag, err |-> "read"]
    ELSE LET buf == ReadBuf(src.bytes, DetectBufLen)
             sig == SigTag(buf)
             ext == ExtTag(Ext(src.name))
         IN IF sig # NoTag THEN [tag |-> sig, err |-> "nil"]
            ELSE IF ext # NoTag THEN [tag |-> ext, err |-> "nil"]
            ELSE [tag |-> NoTag, err |-> "unknown archive type"]

\* ------------------------------------------------------------------------
\* The switch of main: the strategy a tag is routed to
\* ------------------------------------------------------------------------
\* A mutant of Dispatch: the single-file case without lz and lzma.
DispatchNoLz(tag) ==
    IF tag = "zip" THEN "unzip"
    ELSE IF tag \in {"tar", "tar.gz", "tar.bz2", "tar.xz", "tar.lz",
                     "tar.lzma", "tar.zst"} THEN "untar"
    ELSE IF tag \in {"gz", "bz2", "xz", "zst"} THEN "extractSingleFile"
    ELSE IF tag \in {"7z", "rar"} THEN "extractWith7z"
    ELSE "unsupported"

Dispatch(tag) ==
    IF tag = "zip" THEN "unzip"
    ELSE IF tag \in {"tar", "tar.gz", "tar.bz2", "tar.xz", "tar.lz",
                     "tar.lzma", "tar.zst"} THEN "untar"
    ELSE IF tag \in {"gz", "bz2", "xz", "lz", "lzma", "zst"}
         THEN "extractSingleFile"
    ELSE IF tag \in {"7z", "rar"} THEN "extractWith7z"
    ELSE "unsupported"

\* ------------------------------------------------------------------------
\* Paths: filepath.Join, filepath.Clean, filepath.Dir, filepath.Base
\* ------------------------------------------------------------------------
Empty == <<"">>
Dot == <<"", "">>
DotDot == <<"", "", "">>

RECURSIVE CleanFrom(_, _)
\* filepath.Clean on a path that is not rooted: empty and "." names are
\* dropped, ".." removes the name before it and is kept when there is none.
CleanFrom(rest, out) ==
    IF rest = <<>> THEN out
    ELSE LET c == Head(rest)
         IN IF c = Empty \/ c = Dot THEN CleanFrom(Tail(rest), out)
            ELSE IF c = DotDot
                 THEN IF out # <<>> /\ Last(out) # DotDot
                      THEN CleanFrom(Tail(rest), Front(out))
                      ELSE CleanFrom(Tail(rest), Append(out, DotDot))
            ELSE CleanFrom(Tail(rest), Append(out, c))

Clean(path) == CleanFrom(path, <<>>)

\* filepath.Join(dir, name), dir not rooted
Join(dir, name) == Clean(dir \o name)

\* filepath.Dir of a cleaned path
Dir(path) == IF path = <<>> THEN <<>> ELSE Front(path)

\* filepath.Base
Base(path) == IF path = <<>> THEN Dot ELSE Last(path)

\* ------------------------------------------------------------------------
\* The file system below and around the working directory
\* ------------------------------------------------------------------------
\* dirs: the directories made; files: path -> [data, mode].  The working
\* directory and its ancestors ("..", "../..") are directories throughout.
EmptyFS == [dirs |-> {}, files |-> <<>>]

IsDir(fs, p) ==
    \/ p \in fs.dirs
    \/ \A i \in 1..Len(p) : p[i] = DotDot

IsFile(fs, p) == p \in DOMAIN fs.files

RECURSIVE MkdirAll(_, _)
\* os.MkdirAll: [ok, fs].  A path that is a file, or lies below one, fails;
\* the ancestors made before the failure stay.
MkdirAll(fs, p) ==
    IF IsDir(fs, p) THEN [ok |-> TRUE, fs |-> fs]
    ELSE IF IsFile(fs, p) THEN [ok |-> FALSE, fs |-> fs]
    ELSE LET up == MkdirAll(fs, Dir(p))
         IN IF ~up.ok THEN up
            ELSE [ok |-> TRUE,
                  fs |-> [up.fs EXCEPT !.dirs = @ \cup {p}]]

\* Whether the process may open the path for writing (O_WRONLY or O_RDWR).
CanWrite(fs, p, root) ==
    /\ ~IsDir(fs, p)
    /\ IsDir(fs, Dir(p))
    /\ IsFile(fs, p) => (root \/ fs.files[p].mode = "rw")

WithFile(fs, p, f) ==
    [fs EXCEPT !.files = [q \in DOMAIN fs.files \cup {p} |->
                             IF q = p THEN f ELSE fs.files[q]]]

\* The file an open with O_CREATE|O_TRUNC leaves: empty; a file that was
\* there keeps its mode, a new one gets the mode asked for.
Truncated(fs, p, mode) ==
    WithFile(fs, p, [data |-> <<>>,
                     mode |-> IF IsFile(fs, p) THEN fs.files[p].mode
                              ELSE mode])

\* os.OpenFile(p, O_WRONLY|O_CREATE|O_TRUNC, mode): [ok, fs]
OpenFile(fs, p, mode, root) ==
    IF CanWrite(fs, p, root)
    THEN [ok |-> TRUE, fs |-> Truncated(fs, p, mode)]
    ELSE [ok |-> FALSE, fs |-> fs]

\* os.Create(p) is OpenFile(p, O_RDWR|O_CREATE|O_TRUNC, 0666)
Create(fs, p, root) == OpenFile(fs, p, "rw", root)

\* A mutant of Written: the copy stops one byte short.
WrittenShort(fs, p, data) ==
    WithFile(fs, p, [fs.files[p] EXCEPT !.data = Front(data)])

\* io.Copy into the open file: its whole data, or what came before a fault.
Written(fs, p, data) ==
    WithFile(fs, p, [fs.files[p] EXCEPT !.data = data])

\* ------------------------------------------------------------------------
\* Inputs: command lines, source files, archive entries
\* ------------------------------------------------------------------------
A == <<"a">>
B == <<"b">>

\* the directory that holds the source file, and a destination argument
InDir == <<"in">>
OutDir == <<"out">>

\* Entry names: a, a/b, ../a and /a
EntryNames == {<<A>>, <<A, B>>, <<DotDot, A>>, <<Empty, A>>}

EntryData == {<<1>>, <<2>>}

Entry(name, kind, data, mode, fault) ==
    [name |-> name, kind |-> kind, data |-> data, mode |-> mode,
     fault |-> fault]

\* Entries of a zip container: directories, and regular files with their
\* data and a mode with ("rw") or without ("ro") owner write permission; a
\* fault is an entry whose stream cannot be opened (f.Open fails) or whose
\* data cannot be read to the end (io.Copy fails).
ZipEntries ==
    {Entry(n, "dir", <<>>, "rw", "none") : n \in EntryNames}
    \cup {Entry(n, "reg", d, m, "none") :
            n \in EntryNames, d \in EntryData, m \in {"rw", "ro"}}
    \cup {Entry(n, "reg", <<1>>, "rw", f) :
            n \in EntryNames, f \in {"open", "copy"}}

\* Entries of a tar stream: directories, regular files, and entries of
\* another type ("other": a symbolic link, a device).
TarEntries ==
    {Entry(n, "dir", <<>>, "rw", "none") : n \in EntryNames}
    \cup {Entry(<<A>>, "other", <<>>, "rw", "none")}
    \cup {Entry(n, "reg", d, "rw", "none") : n \in EntryNames, d \in EntryData}
    \cup {Entry(n, "reg", <<1>>, "rw", "copy") : n \in EntryNames}

Signatures == {SigZip, SigGzip, SigBzip2, SigXz, SigRar, Sig7z, SigZstd}

\* File names: x, x.<e> and x.tar.<e>
NameExts == {"gz", "bz2", "xz", "lz", "lzma", "zst", "tar", "txt"}

FileNames ==
    {<<"x">>} \cup {<<"x", e>> : e \in NameExts}
    \cup {<<"x", "tar", e>> : e \in {"gz", "lz", "lzma", "txt"}}

\* A source file: bytes are its first DetectBufLen bytes, and all of its
\* bytes when it is shorter than that.
File(bytes) == [kind |-> "file", bytes |-> bytes]

\* A file that starts with head and goes on (with zeros) beyond the buffer.
Long(head) == File(ReadBuf(head, DetectBufLen))

\* The file holds nothing beyond src.bytes: too short for a zip directory, a
\* gzip or xz header, or a tar header.
Short(file) == Len(file.bytes) < DetectBufLen

\* The sources of a whole run, <<file, name>>: a long file for every
\* signature, under a name whose suffix says otherwise; a long file without
\* a signature, named x.tar; short files without a signature (empty, and
\* the one byte "P") under every name; the first five bytes of the xz
\* signature; a missing file and a directory.
Sources ==
    {<<Long(s), <<"x", "gz">>>> : s \in Signatures}
    \cup {<<Long(<<97>>), <<"x", "tar">>>>}
    \cup {<<File(b), n>> : b \in {<<>>, <<80>>}, n \in FileNames}
    \cup {<<File(Take(SigXz, 5)), <<"x", "txt">>>>}
    \cup {<<[kind |-> k, bytes |-> <<>>], <<"x", "gz">>>> :
             k \in {"missing", "dir"}}

\* ------------------------------------------------------------------------
\* State
\* ------------------------------------------------------------------------
VARIABLES
    args,        \* os.Args[1:]: <<>>, <<archivePath>> or <<archivePath, destDir>>
    src,         \* the file at archivePath: [kind, bytes]
    root,        \* the process is privileged: permission bits are not checked
    container,   \* what opening the source as a container gives: "ok", "bad",
                 \* "unknown" until a strategy has opened it
    archive,     \* the entries of the source read so far, in stored order
    ending,      \* how the entries end: "eof", "hdr" (a header that cannot
                 \* be read), "unknown" until the end has been read
    fs,          \* the file system
    pc,          \* where the run is
    archiveType, \* main's archiveType
    err,         \* main's err: "nil" or the error
    idx,         \* entries the running strategy has taken
    open,        \* handles, readers and streams open and not closed
    strategies,  \* the strategies main has called in this run
    cmds,        \* the external commands run in this run, and how each ended
    ioFailed,    \* an I/O operation of the running strategy has failed
    stdout,      \* the lines printed in this run
    exitCode,    \* the exit code the process ends with once pc = "exit"
    run,         \* the number of this run
    snap         \* the file system when the run before ended, and its exit code

vars == <<args, src, root, container, archive, ending, fs, pc, archiveType,
          err, idx, open, strategies, cmds, ioFailed, stdout, exitCode, run,
          snap>>

env == <<args, src, root>>

archivePath == args[1]

destDir == IF Len(args) >= 2 THEN args[2] ELSE <<Dot>>

Fresh ==
    /\ pc = "start"
    /\ archiveType = NoTag
    /\ err = "nil"
    /\ idx = 0
    /\ open = {}
    /\ strategies = <<>>
    /\ cmds = <<>>
    /\ ioFailed = FALSE
    /\ stdout = <<>>
    /\ exitCode = 0

Init ==
    /\ \/ /\ args = <<>>
          /\ src = [kind |-> "missing", bytes |-> <<>>]
          /\ root = FALSE
       \/ /\ \E s \in Sources :
                /\ src = s[1]
                /\ args \in {<<<<InDir, s[2]>>>>, <<<<InDir, s[2]>>, <<OutDir>>>>}
          /\ root \in BOOLEAN
    /\ container = "unknown"
    /\ archive = <<>>
    /\ ending = "unknown"
    /\ fs = EmptyFS
    /\ Fresh
    /\ run = 1
    /\ snap = [fs |-> EmptyFS, exitCode |-> 0]

\* ------------------------------------------------------------------------
\* main
\* ------------------------------------------------------------------------
Exit(code, line) ==
    /\ pc' = "exit"
    /\ exitCode' = code
    /\ stdout' = Append(stdout, line)

\* len(os.Args) < 2: the usage line and os.Exit(1)
MainUsage ==
    /\ pc = "start"
    /\ Len(args) < 1
    /\ Exit(1, "usage")
    /\ UNCHANGED <<env, container, archive, ending, fs, archiveType, err,
                   idx, open, strategies, cmds, ioFailed, run, snap>>

\* archiveType, err := detectArchiveType(archivePath), and the exit on err
MainDetect ==
    /\ pc = "start"
    /\ Len(args) >= 1
    /\ LET r == detectArchiveType([kind |-> src.kind, bytes |-> src.bytes,
                                   name |-> Base(archivePath)])
       IN /\ archiveType' = r.tag
          /\ err' = r.err
          /\ IF r.err # "nil"
             THEN Exit(1, "error detecting archive type")
             ELSE /\ pc' = "switch"
                  /\ UNCHANGED <<stdout, exitCode>>
    /\ UNCHANGED <<env, container, archive, ending, fs, idx, open,
                   strategies, cmds, ioFailed, run, snap>>

\* switch archiveType: the call of the strategy, or the default branch
MainSwitch ==
    /\ pc = "switch"
    /\ LET s == Dispatch(archiveType)
       IN IF s = "unsupported"
          THEN /\ Exit(1, "unsupported archive type")
               /\ UNCHANGED strategies
          ELSE /\ pc' = s
               /\ strategies' = Append(strategies, s)
               /\ UNCHANGED <<stdout, exitCode>>
    /\ UNCHANGED <<env, container, archive, ending, fs, archiveType, err,
                   idx, open, cmds, ioFailed, run, snap>>

\* A mutant of MainFinish: the completion line whatever err is.
MainFinishAlways ==
    /\ pc = "returned"
    /\ Exit(0, "extraction complete")
    /\ UNCHANGED <<env, container, archive, ending, fs, archiveType, err,
                   idx, open, strategies, cmds, ioFailed, run, snap>>

\* after the switch: the exit on err, or the completion line and exit 0
MainFinish ==
    /\ pc = "returned"
    /\ IF err # "nil"
       THEN Exit(1, "extraction error")
       ELSE Exit(0, "extraction complete")
    /\ UNCHANGED <<env, container, archive, ending, fs, archiveType, err,
                   idx, open, strategies, cmds, ioFailed, run, snap>>

\* After a run that ended with exit code 0, the same command line is run
\* again on the same source and file system.
RunAgain ==
    /\ pc = "exit"
    /\ exitCode = 0
    /\ run < MaxRuns
    /\ run' = run + 1
    /\ snap' = [fs |-> fs, exitCode |-> exitCode]
    /\ pc' = "start"
    /\ archiveType' = NoTag
    /\ err' = "nil"
    /\ idx' = 0
    /\ open' = {}
    /\ strategies' = <<>>
    /\ cmds' = <<>>
    /\ ioFailed' = FALSE
    /\ stdout' = <<>>
    /\ exitCode' = 0
    /\ UNCHANGED <<env, container, archive, ending, fs>>

\* ------------------------------------------------------------------------
\* The entries of the source, read in stored order
\* ------------------------------------------------------------------------
\* The entries the next read can give: the one already known at this place,
\* or, where the source has not been read yet, any entry of its format.
NextEntries(universe) ==
    IF idx < Len(archive) THEN {archive[idx + 1]}
    ELSE IF ending = "unknown" /\ Len(archive) < MaxEntries /\ ~Short(src)
         THEN universe
    ELSE {}

Taken(e) ==
    /\ archive' = IF idx < Len(archive) THEN archive ELSE Append(archive, e)
    /\ idx' = idx + 1

\* What opening the source as a container gives: what it gave before, and
\* for a source not opened yet, "ok" or "bad" as canFail (the open reads a
\* header or a directory) and mustFail (the file is too short to hold one)
\* allow.
Containers(canFail, mustFail) ==
    IF container # "unknown" THEN {container}
    ELSE IF ~canFail THEN {"ok"}
    ELSE IF mustFail THEN {"bad"}
    ELSE {"ok", "bad"}

\* How the entries of a tar stream can end: as they ended before; at the end
\* of an empty unfiltered file with io.EOF; inside a short file with an
\* error; else either way.
Endings(filter) ==
    IF ending # "unknown" THEN {ending}
    ELSE IF Short(src)
         THEN IF src.bytes = <<>> /\ filter = "none" THEN {"eof"} ELSE {"hdr"}
    ELSE {"eof", "hdr"}

\* ------------------------------------------------------------------------
\* unzip
\* ------------------------------------------------------------------------
\* The body of unzip's loop for entry f: the file system it leaves, the error
\* it returns ("nil": the loop goes on), the handles it leaves open, and
\* whether an I/O operation failed.
unzipEntry(disk, dest, f, priv) ==
    LET fpath == Join(dest, f.name)
    IN IF f.kind = "dir"
       THEN LET m == MkdirAll(disk, fpath)
            IN [fs |-> m.fs, err |-> "nil", open |-> {}, failed |-> ~m.ok]
       ELSE LET m == MkdirAll(disk, Dir(fpath))
                o == OpenFile(m.fs, fpath, f.mode, priv)
            IN IF ~o.ok
               THEN [fs |-> m.fs, err |-> "open file", open |-> {},
                     failed |-> TRUE]
               ELSE IF f.fault = "open"
               THEN [fs |-> o.fs, err |-> "open entry", open |-> {"outFile"},
                     failed |-> TRUE]
               ELSE IF f.fault = "copy"
               THEN [fs |-> Written(o.fs, fpath, Front(f.data)),
                     err |-> "copy", open |-> {}, failed |-> TRUE]
               ELSE [fs |-> Written(o.fs, fpath, f.data), err |-> "nil",
                     open |-> {}, failed |-> ~m.ok]

\* r, err := zip.OpenReader(src); defer r.Close()
UnzipOpen ==
    /\ pc = "unzip"
    /\ \E c \in Containers(TRUE, Short(src)) :
          /\ container' = c
          /\ IF c = "bad"
             THEN /\ err' = "open reader"
                  /\ pc' = "returned"
                  /\ open' = {}
             ELSE /\ err' = "nil"
                  /\ pc' = "unzipLoop"
                  /\ open' = {"r"}
    /\ idx' = 0
    /\ ioFailed' = FALSE
    /\ UNCHANGED <<env, archive, ending, fs, archiveType, strategies, cmds,
                   stdout, exitCode, run, snap>>

\* one pass of for _, f := range r.File
UnzipEntry ==
    /\ pc = "unzipLoop"
    /\ \E f \in NextEntries(ZipEntries) :
          LET r == unzipEntry(fs, destDir, f, root)
          IN /\ Taken(f)
             /\ fs' = r.fs
             /\ err' = r.err
             /\ ioFailed' = (ioFailed \/ r.failed)
             /\ IF r.err # "nil"
                THEN pc' = "returned" /\ open' = r.open
                ELSE pc' = "unzipLoop" /\ open' = {"r"}
    /\ UNCHANGED <<env, container, ending, archiveType, strategies, cmds,
                   stdout, exitCode, run, snap>>

\* the range is exhausted: return nil
UnzipEnd ==
    /\ pc = "unzipLoop"
    /\ idx = Len(archive)
    /\ ending \in {"unknown", "eof"}
    /\ ending' = "eof"
    /\ err' = "nil"
    /\ pc' = "returned"
    /\ open' = {}
    /\ UNCHANGED <<env, container, archive, fs, archiveType, idx, strategies,
                   cmds, ioFailed, stdout, exitCode, run, snap>>

\* ------------------------------------------------------------------------
\* untar
\* ------------------------------------------------------------------------
UntarBufLen == 6

\* The decompression filter untar selects from the first bytes.
Filter(bytes) ==
    LET buf == ReadBuf(bytes, UntarBufLen)
    IN IF HasPrefix(buf, SigGzip) THEN "gzip"
       ELSE IF HasPrefix(buf, SigBzip2) THEN "bzip2"
       ELSE IF HasPrefix(buf, SigXz) THEN "xz"
       ELSE IF HasPrefix(buf, SigZstd) THEN "zstd"
       ELSE "none"

\* The readers whose construction can fail (those of gzip and xz read a
\* header at once), and the handle each one holds until its deferred Close.
FilterCanFail(filter) == filter \in {"gzip", "xz", "zstd"}

FilterMustFail(filter) == filter \in {"gzip", "xz"} /\ Short(src)

FilterHandle(filter) ==
    IF filter = "gzip" THEN {"gr"}
    ELSE IF filter = "zstd" THEN {"zr"}
    ELSE {}

\* The body of untar's loop for one header.
untarEntry(disk, dest, header, priv) ==
    LET target == Join(dest, header.name)
    IN IF header.kind = "dir"
       THEN LET m == MkdirAll(disk, target)
            IN [fs |-> m.fs, err |-> "nil", open |-> {}, failed |-> ~m.ok]
       ELSE IF header.kind = "reg"
       THEN LET m == MkdirAll(disk, Dir(target))
                o == Create(m.fs, target, priv)
            IN IF ~o.ok
               THEN [fs |-> m.fs, err |-> "create", open |-> {},
                     failed |-> TRUE]
               ELSE IF header.fault = "copy"
               THEN [fs |-> Written(o.fs, target, Front(header.data)),
                     err |-> "copy", open |-> {}, failed |-> TRUE]
               ELSE [fs |-> Written(o.fs, target, header.data),
                     err |-> "nil", open |-> {}, failed |-> ~m.ok]
       ELSE [fs |-> disk, err |-> "nil", open |-> {}, failed |-> FALSE]

\* f, err := os.Open(src); the filter; tr := tar.NewReader(fileReader)
UntarOpen ==
    /\ pc = "untar"
    /\ LET filter == Filter(src.bytes)
       IN \E c \in Containers(FilterCanFail(filter), FilterMustFail(filter)) :
             /\ container' = c
             /\ IF c = "bad"
                THEN /\ err' = "new reader"
                     /\ pc' = "returned"
                     /\ open' = {}
                ELSE /\ err' = "nil"
                     /\ pc' = "untarLoop"
                     /\ open' = {"f"} \cup FilterHandle(filter)
    /\ idx' = 0
    /\ ioFailed' = FALSE
    /\ UNCHANGED <<env, archive, ending, fs, archiveType, strategies, cmds,
                   stdout, exitCode, run, snap>>

\* header, err := tr.Next() gives a header: one pass of the loop
UntarEntry ==
    /\ pc = "untarLoop"
    /\ \E header \in NextEntries(TarEntries) :
          LET r == untarEntry(fs, destDir, header, root)
          IN /\ Taken(header)
             /\ fs' = r.fs
             /\ err' = r.err
             /\ ioFailed' = (ioFailed \/ r.failed)
             /\ IF r.err # "nil"
                THEN pc' = "returned" /\ open' = r.open
                ELSE pc' = "untarLoop" /\ UNCHANGED open
    /\ UNCHANGED <<env, container, ending, archiveType, strategies, cmds,
                   stdout, exitCode, run, snap>>

\* tr.Next() gives io.EOF (break; return nil) or another error (return err)
UntarEnd ==
    /\ pc = "untarLoop"
    /\ idx = Len(archive)
    /\ \E e \in Endings(Filter(src.bytes)) :
          /\ ending' = e
          /\ err' = IF e = "eof" THEN "nil" ELSE "next"
          /\ ioFailed' = (ioFailed \/ e = "hdr")
    /\ pc' = "returned"
    /\ open' = {}
    /\ UNCHANGED <<env, container, archive, fs, archiveType, idx, strategies,
                   cmds, stdout, exitCode, run, snap>>

\* ------------------------------------------------------------------------
\* extractSingleFile and extractWith7z
\* ------------------------------------------------------------------------
\* The tool of extractSingleFile's switch, "" in its default branch
Tool(typ) ==
    IF typ = "gz" THEN "gunzip"
    ELSE IF typ = "bz2" THEN "bunzip2"
    ELSE IF typ = "xz" THEN "unxz"
    ELSE IF typ = "zst" THEN "unzstd"
    ELSE ""

\* How cmd.Run() can end: the process ran and exited 0, could not be
\* started, or exited non-zero.
RunResults == {"ok", "not started", "exit status"}

RunErr(result) == IF result = "ok" THEN "nil" ELSE result

\* A mutant of extractSingleFile: the output file is created before the switch
\* on typ.
extractSingleFileCreateFirst(disk, path, dest, typ, priv, result) ==
    LET outPath == Join(dest, <<Base(path)>>)
        o == Create(disk, outPath, priv)
    IN IF ~o.ok
       THEN [fs |-> disk, err |-> "create", cmds |-> <<>>]
       ELSE IF Tool(typ) = ""
       THEN [fs |-> o.fs, err |-> "unsupported single file compression type",
             cmds |-> <<>>]
       ELSE [fs |-> IF result = "ok" THEN Written(o.fs, outPath, <<1>>)
                    ELSE o.fs,
             err |-> RunErr(result),
             cmds |-> <<[name |-> Tool(typ), flags |-> <<"-k", "-c">>,
                         path |-> path, dest |-> <<>>,
                         result |-> result]>>]

\* extractSingleFile(src, dest, typ) when cmd.Run() ends with result: the
\* file system it leaves, the error it returns, and the commands it ran.  The
\* tool writes its output (here the byte 1) to the file created.
extractSingleFile(disk, path, dest, typ, priv, result) ==
    IF Tool(typ) = ""
    THEN [fs |-> disk, err |-> "unsupported single file compression type",
          cmds |-> <<>>]
    ELSE LET outPath == Join(dest, <<Base(path)>>)
             o == Create(disk, outPath, priv)
         IN IF ~o.ok
            THEN [fs |-> disk, err |-> "create", cmds |-> <<>>]
            ELSE [fs |-> IF result = "ok" THEN Written(o.fs, outPath, <<1>>)
                         ELSE o.fs,
                  err |-> RunErr(result),
                  cmds |-> <<[name |-> Tool(typ), flags |-> <<"-k", "-c">>,
                              path |-> path, dest |-> <<>>,
                              result |-> result]>>]

\* err = extractSingleFile(archivePath, destDir, archiveType); the deferred
\* outFile.Close() has run when it returns
ExtractSingleFile ==
    /\ pc = "extractSingleFile"
    /\ \E result \in RunResults :
          LET r == extractSingleFile(fs, archivePath, destDir, archiveType,
                                     root, result)
          IN /\ fs' = r.fs
             /\ err' = r.err
             /\ cmds' = cmds \o r.cmds
             /\ ioFailed' = (r.err # "nil")
    /\ pc' = "returned"
    /\ open' = {}
    /\ UNCHANGED <<env, container, archive, ending, archiveType, idx,
                   strategies, stdout, exitCode, run, snap>>

\* err = extractWith7z(archivePath, destDir): 7z x <src> -o<dest> -y.  What
\* the archiver writes is its own affair and is not followed.
ExtractWith7z ==
    /\ pc = "extractWith7z"
    /\ \E result \in RunResults :
          /\ err' = RunErr(result)
          /\ ioFailed' = (result # "ok")
          /\ cmds' = Append(cmds, [name |-> "7z",
                                   flags |-> <<"x", "-o", "-y">>,
                                   path |-> archivePath, dest |-> destDir,
                                   result |-> result])
    /\ pc' = "returned"
    /\ UNCHANGED <<env, container, archive, ending, fs, archiveType, idx,
                   open, strategies, stdout, exitCode, run, snap>>

\* ------------------------------------------------------------------------
\* Specifications
\* ------------------------------------------------------------------------
Next ==
    \/ MainUsage
    \/ MainDetect
    \/ MainSwitch
    \/ UnzipOpen
    \/ UnzipEntry
    \/ UnzipEnd
    \/ UntarOpen
    \/ UntarEntry
    \/ UntarEnd
    \/ ExtractSingleFile
    \/ ExtractWith7z
    \/ MainFinish
    \/ RunAgain

Spec == Init /\ [][Next]_vars

\* detectArchiveType and the switch alone, on every source file: a prefix of
\* a signature (none, part or all of it) followed by up to MaxTail bytes, and
\* the long files, under every name.
TailBytes == {0, 75}

Prefixes(sig) == {Take(sig, k) : k \in 0..Len(sig)}

Contents ==
    {h \o t : h \in UNION {Prefixes(sig) : sig \in Signatures},
              t \in SeqsUpTo(TailBytes, MaxTail)}
    \cup {ReadBuf(s, DetectBufLen) : s \in Signatures \cup {<<97>>}}

InitDetect ==
    /\ \E b \in Contents, n \in FileNames :
          /\ src = File(b)
          /\ args = <<<<InDir, n>>>>
    /\ root = FALSE
    /\ container = "unknown"
    /\ archive = <<>>
    /\ ending = "unknown"
    /\ fs = EmptyFS
    /\ Fresh
    /\ run = 1
    /\ snap = [fs |-> EmptyFS, exitCode |-> 0]

NextDetect ==
    \/ MainDetect
    \/ MainSwitch

SpecDetect == InitDetect /\ [][NextDetect]_vars

\* ------------------------------------------------------------------------
\* Properties
\* ------------------------------------------------------------------------
\* The tag documented for each signature
SignatureTag(sig) ==
    CASE sig = SigZip -> "zip"
      [] sig = SigGzip -> "tar.gz"
      [] sig = SigBzip2 -> "tar.bz2"
      [] sig = SigXz -> "tar.xz"
      [] sig = SigRar -> "rar"
      [] sig = Sig7z -> "7z"
      [] sig = SigZstd -> "tar.zst"

SourceName == Base(archivePath)

Detected == pc # "start" /\ Len(args) >= 1 /\ src.kind = "file"

\* C1: once detectArchiveType has returned on a file whose bytes begin with a
\* signature, the tag is that signature's tag and there is no error, whatever
\* bytes follow and whatever the name is; and no file begins with two
\* signatures.
C1_SignatureDecidesTag ==
    Detected =>
        /\ \A sig \in Signatures :
              HasPrefix(src.bytes, sig) =>
                  archiveType = SignatureTag(sig) /\ err = "nil"
        /\ \A s1, s2 \in Signatures :
              HasPrefix(src.bytes, s1) /\ HasPrefix(src.bytes, s2) => s1 = s2

\* C1's case: the rar signature followed by another byte, under a name whose
\* suffix maps to another tag, has been classified as rar.
C1_Witness ==
    /\ pc = "switch"
    /\ HasPrefix(src.bytes, SigRar)
    /\ Len(src.bytes) > Len(SigRar)
    /\ ExtTag(Ext(SourceName)) = "lzma"
    /\ archiveType = "rar"

\* The tag the fallback is documented to give a name: by its suffix, a name
\* that ends in .tar.lz or .tar.lzma being tar.lz or tar.lzma.
HasSuffix(name, suffix) ==
    /\ Len(name) > Len(suffix)
    /\ SubSeq(name, Len(name) - Len(suffix) + 1, Len(name)) = suffix

SuffixTag(name) ==
    IF HasSuffix(name, <<"tar", "lz">>) THEN "tar.lz"
    ELSE IF HasSuffix(name, <<"tar", "lzma">>) THEN "tar.lzma"
    ELSE IF \E e \in {"gz", "bz2", "xz", "lz", "lzma", "zst", "tar"} :
               HasSuffix(name, <<e>>)
         THEN Last(name)
    ELSE NoTag

\* C2: once detectArchiveType has returned on a file of which no signature is
\* a prefix, the tag is the one mapped from the name's suffix (x.tar.lz is
\* tar.lz, x.tar.lzma is tar.lzma), and the error is the unknown-format error
\* exactly when the suffix is none of the mapped ones.
C2_SuffixDecidesTag ==
    (Detected /\ \A sig \in Signatures : ~HasPrefix(src.bytes, sig)) =>
        IF SuffixTag(SourceName) # NoTag
        THEN archiveType = SuffixTag(SourceName) /\ err = "nil"
        ELSE archiveType = NoTag /\ err = "unknown archive type"

\* The strategy documented for each tag
Route(tag) ==
    CASE tag = "zip" -> "unzip"
      [] tag \in {"tar", "tar.gz", "tar.bz2", "tar.xz", "tar.lz", "tar.lzma",
                  "tar.zst"} -> "untar"
      [] tag \in {"gz", "bz2", "xz", "lz", "lzma", "zst"} -> "extractSingleFile"
      [] tag \in {"7z", "rar"} -> "extractWith7z"
      [] OTHER -> "unsupported"

Tags ==
    {"zip", "tar", "tar.gz", "tar.bz2", "tar.xz", "tar.lz", "tar.lzma",
     "tar.zst", "gz", "bz2", "xz", "lz", "lzma", "zst", "7z", "rar"}

PastSwitch == pc \notin {"start", "switch"} /\ archiveType # NoTag

\* C3: the switch routes every tag as documented and any other tag to the
\* unsupported report; a run calls at most one strategy, and once past the
\* switch exactly the one of its tag; the unsupported report is never printed.
C3_DispatchTotal ==
    /\ \A tag \in Tags \cup {NoTag, "tgz", "cab"} : Dispatch(tag) = Route(tag)
    /\ Len(strategies) <= 1
    /\ PastSwitch =>
          /\ archiveType \in Tags
          /\ strategies = <<Route(archiveType)>>
    /\ \A i \in 1..Len(stdout) : stdout[i] # "unsupported archive type"

\* C3's case: a run on a file classified lzma by its suffix has ended, and its
\* one strategy was extractSingleFile.
C3_Witness ==
    /\ pc = "exit"
    /\ archiveType = "lzma"
    /\ strategies = <<"extractSingleFile">>

Printed(line) == \E i \in 1..Len(stdout) : stdout[i] = line

DetectFails ==
    detectArchiveType([kind |-> src.kind, bytes |-> src.bytes,
                       name |-> SourceName]).err # "nil"

\* C4: a run without an argument, or whose classification fails, exits with
\* code 1 having called no strategy, run no command and written nothing; a
\* run whose strategy returned an error exits with code 1; the completion line
\* is printed, and the exit code is 0, exactly when the classification
\* succeeded and the strategy returned no error.
C4_ExitCodes ==
    /\ pc \in {"start", "switch"} =>
          strategies = <<>> /\ cmds = <<>> /\ fs = snap.fs
    /\ (pc = "exit" /\ (Len(args) < 1 \/ DetectFails)) =>
          /\ exitCode = 1
          /\ strategies = <<>>
          /\ cmds = <<>>
          /\ fs = snap.fs
    /\ (pc = "exit" /\ strategies # <<>> /\ err # "nil") => exitCode = 1
    /\ pc # "exit" => ~Printed("extraction complete")
    /\ pc = "exit" =>
          /\ Printed("extraction complete") <=> exitCode = 0
          /\ exitCode = 0 <=>
                (Len(args) >= 1 /\ ~DetectFails /\ strategies # <<>>
                 /\ err = "nil")

\* C4's case: unzip wrote a file, then returned an error, and the run has
\* exited with code 1 without the completion line.
C4_Witness ==
    /\ pc = "exit"
    /\ strategies = <<"unzip">>
    /\ err # "nil"
    /\ fs.files # <<>>
    /\ exitCode = 1

ExtractedBy(strategy) ==
    /\ pc \in {"returned", "exit"}
    /\ strategies = <<strategy>>

Extracted == ExtractedBy("unzip") \/ ExtractedBy("untar")

\* The place of entry i on disk
EntryPath(i) == Join(destDir, archive[i].name)

RegularEntries == {i \in 1..Len(archive) : archive[i].kind = "reg"}

DirEntries == {i \in 1..Len(archive) : archive[i].kind = "dir"}

Ancestors(p) == {SubSeq(p, 1, k) : k \in 0..(Len(p) - 1)}

LastAt(i) ==
    CHOOSE j \in RegularEntries :
        /\ EntryPath(j) = EntryPath(i)
        /\ \A k \in RegularEntries : EntryPath(k) = EntryPath(i) => k <= j

\* A regular-file entry before entry i lies at the path of i or above it.
FileInTheWay(i) ==
    \E j \in RegularEntries :
        /\ j < i
        /\ HasPrefix(EntryPath(i), EntryPath(j))

C6_Idempotent ==
    (Extracted /\ run = 2) => err = "nil" /\ (pc = "exit" => fs = snap.fs)

\* C7: when a strategy has returned, every handle, reader and stream it
\* opened is closed.
C7_AllClosed ==
    pc \in {"returned", "exit"} => open = {}

\* C8: in unzip and untar an I/O failure ends the operation at once with an
\* error: the loop never goes on after one, and the operation does not return
\* success.
C8_FirstFailureReturns ==
    /\ pc \in {"unzipLoop", "untarLoop"} => ~ioFailed
    /\ (Extracted /\ ioFailed) => err # "nil"

SingleFileTags == {"gz", "bz2", "xz", "zst"}

OutPath == Join(destDir, <<SourceName>>)

\* C9: extractSingleFile on a tag outside gz, bz2, xz, zst (a file without a
\* signature named .lz or .lzma, end to end) returns the unsupported
\* compression type error, runs no command and leaves the file system as it
\* was, and the run exits with code 1; on a tag of these it either fails to
\* create the output file, or creates it at the destination joined with the
\* source's base name and runs the tag's tool once with -k -c and the source
\* path, returning an error exactly when the tool was not started or exited
\* non-zero.
C9_SingleFile ==
    ExtractedBy("extractSingleFile") =>
        IF archiveType \notin SingleFileTags
        THEN /\ archiveType \in {"lz", "lzma"}
             /\ err = "unsupported single file compression type"
             /\ cmds = <<>>
             /\ fs = snap.fs
             /\ pc = "exit" => exitCode = 1
        ELSE \/ /\ err = "create"
                /\ cmds = <<>>
                /\ fs = snap.fs
             \/ /\ IsFile(fs, OutPath)
                /\ Len(cmds) = 1
                /\ cmds[1].name =
                      (CASE archiveType = "gz" -> "gunzip"
                         [] archiveType = "bz2" -> "bunzip2"
                         [] archiveType = "xz" -> "unxz"
                         [] archiveType = "zst" -> "unzstd")
                /\ cmds[1].flags = <<"-k", "-c">>
                /\ cmds[1].path = archivePath
                /\ err = "nil" <=> cmds[1].result = "ok"

\* C9's case: a run on an empty file named x.lz into a destination that
\* exists has ended in extractSingleFile's error.
C9_Witness ==
    /\ pc = "exit"
    /\ strategies = <<"extractSingleFile">>
    /\ archiveType = "lz"
    /\ SourceName = <<"x", "lz">>
    /\ src.bytes = <<>>
    /\ destDir = <<Dot>>
    /\ exitCode = 1

\* p lies in the tree rooted at directory d (both cleaned).
Inside(d, p) ==
    /\ HasPrefix(p, d)
    /\ Len(p) > Len(d) => p[Len(d) + 1] # DotDot

\* C10: every file and directory unzip or untar has made lies in the tree
\* rooted at the destination directory.
C10_InsideDestination ==
    Extracted =>
        \A p \in fs.dirs \cup DOMAIN fs.files : Inside(Clean(destDir), p)

=============================================================================
